---- MODULE Spec2Model ----
(***************************************************************************)
(* A model of JOB-EZ: the Applicator (src/src/bot.py, JobBot.apply_to_job  *)
(* and its helpers) and the Matcher (src/src/llm_engine.py, LLMEngine).    *)
(*                                                                         *)
(* The browser page and the language model are the environment: what a    *)
(* probe sees, and whether a browser or model call faults, is chosen       *)
(* nondeterministically at the step that asks.                             *)
(***************************************************************************)
EXTENDS Integers, Sequences, FiniteSets, TLC

VARIABLES
    \* ---- Applicator: one call of JobBot.apply_to_job ----
    pc,            \* position inside apply_to_job
    page,          \* self.page is set (a live page handle exists)
    dryRun,        \* the DRY_RUN flag imported from src.config
    outcome,       \* the value returned by the call ("none" while running)
    faulted,       \* a browser fault was raised inside apply_to_job's own frame
    sel,           \* index into apply_locators of the candidate probed next
    clicked,       \* the local flag "clicked"
    applyClicks,   \* clicks on an apply affordance that reached the page
    firstVis,      \* lowest probed candidate that was visible on the page (0: none)
    triggered,     \* the candidate whose click reached the page (0: none)
    iters,         \* form-loop iterations begun
    formPage,      \* form page currently displayed (0: no form open)
    submitVis,     \* the submit affordance was visible when the step looked
    nextVis,       \* "Next" was visible on the form page of this step
    reviewVis,     \* "Review" was visible on the form page of this step
    errVis,        \* the inline validation-error indicator was visible
    submitOnNew,   \* the page shown by a next/review click shows submit
    fills,         \* text inputs filled by field.fill(value)
    radioClicked,  \* a radio option was clicked by option.click()
    attaches,      \* documents attached by set_input_files
    submitClicks,  \* clicks on the submit affordance that reached the page
    nextClicks,    \* clicks on "Next" that reached the page
    reviewClicks,  \* clicks on "Review" that reached the page
    \* ---- Matcher: one call of LLMEngine.select_best_resume ----
    mpc,           \* position inside select_best_resume
    resumes,       \* the mapping passed in, as its entries in iteration order
    modelCalls,    \* calls of self.model.generate_content made
    response_text, \* the text the parser works on
    result,        \* the object json.loads produced
    path,          \* how the call went: which fault, if any, was absorbed
    ret,           \* the MatchResult returned
    \* ---- Matcher: one call of LLMEngine.should_apply ----
    gpc,             \* position: before or after the call
    job_description, \* the job posting text
    match_result,    \* the dictionary handed in
    min_confidence,  \* threshold, in units of 1/Scale
    min_match_score, \* threshold
    decision,        \* what should_apply returned, and the line it printed
    \* ---- Applicator: runs of JobBot._fill_smart_fields over one page ----
    fpc,           \* position: no page yet, or a page to fill
    inputs0,       \* the text inputs of the page before the first run
    inputs,        \* the text inputs of the page now
    runs,          \* runs of _fill_smart_fields made over the page
    \* ---- Matcher: one call of LLMEngine.extract_job_info ----
    epc,           \* position inside extract_job_info
    etext,         \* the text the decoder works on
    epath,         \* how the call went: which fault, if any, was absorbed
    einfo          \* the value returned

appVars == <<pc, page, dryRun, outcome, faulted, sel, clicked, applyClicks,
             firstVis, triggered, iters, formPage, submitVis, nextVis,
             reviewVis, errVis, submitOnNew, fills, radioClicked, attaches,
             submitClicks, nextClicks, reviewClicks>>

matchVars == <<mpc, resumes, modelCalls, response_text, result, path, ret>>

gateVars == <<gpc, job_description, match_result, min_confidence,
              min_match_score, decision>>

fillVars == <<fpc, inputs0, inputs, runs>>

extractVars == <<epc, etext, epath, einfo>>

vars == <<appVars, matchVars, gateVars, fillVars, extractVars>>

(***************************************************************************)
(* Bounds of the model.                                                    *)
(***************************************************************************)
MaxFields == 2      \* text inputs on one form page
MaxResumes == 2     \* entries of the resumes mapping
MaxTextLen == 3     \* pieces of a model response (fences, JSON text, prose)
MaxJdLen == 3       \* words of a job description
MaxRuns == 2        \* runs of _fill_smart_fields over one page

(***************************************************************************)
(* Program constants.                                                      *)
(***************************************************************************)
max_steps == 10     \* bot.py:125

\* bot.py:91-103, the candidate apply affordances in list order
apply_locators == <<"button.jobs-apply-button",
                    "button[aria-label*='Easy Apply']",
                    "button:has-text('Easy Apply')",
                    "a[aria-label*='Easy Apply']",
                    "a:has-text('Easy Apply')",
                    "a[data-view-name='job-apply-button']",
                    "*[aria-label*='Easy Apply']",
                    "*:has-text('Easy Apply')">>

\* user_config.py:2-19, PROFILE in insertion order: <<key, fill value>>
PROFILE == << <<"first_name", "PROFILE.first_name">>,
              <<"last_name", "PROFILE.last_name">>,
              <<"full_name", "PROFILE.full_name">>,
              <<"email", "PROFILE.email">>,
              <<"phone", "PROFILE.phone">>,
              <<"linkedin", "PROFILE.linkedin">>,
              <<"github", "PROFILE.github">>,
              <<"portfolio", "PROFILE.portfolio">>,
              <<"location", "PROFILE.location">>,
              <<"experience_years", "PROFILE.experience_years">>,
              <<"notice_period", "PROFILE.notice_period">> >>

\* The seven outcome strings apply_to_job returns (bot.py:119-173)
Outcomes == {"Success", "Skipped", "FailedSubmit", "FailedFormError",
             "FailedStuck", "FailedTooManySteps", "FailedException"}

(***************************************************************************)
(* The form page as _fill_smart_fields sees it.  A text input has its      *)
(* visibility, its "value" attribute (what get_attribute("value") reads),  *)
(* its live value (what fill() writes) and its label, kept as the set of   *)
(* PROFILE keys that are substrings of the lower-cased label text.         *)
(***************************************************************************)
Labels == {{}, {"phone"}, {"email", "phone"}}

Fields == {f \in [visible : BOOLEAN, attr : {"", "preset"},
                  value : {"", "preset"}, label : Labels] :
              f.attr = "preset" => f.value = "preset"}

PageFields == UNION {[1..n -> Fields] : n \in 0..MaxFields}

\* bot.py:190-195, position in PROFILE of the first key contained in the label
\* (0: no key matches, the field is left alone)
first_match(label) ==
    LET hits == {i \in 1..Len(PROFILE) : PROFILE[i][1] \in label}
    IN  IF hits = {} THEN 0 ELSE CHOOSE i \in hits : \A j \in hits : i <= j

\* bot.py:186, the guard of the fill: visible and no "value" attribute
wants_fill(f) == f.visible /\ f.attr = ""

\* bot.py:186-195, one pass of the loop body over one text input
fill_field(f) ==
    IF wants_fill(f) /\ first_match(f.label) # 0
        THEN [f EXCEPT !.value = PROFILE[first_match(f.label)][2]]
        ELSE f

\* bot.py:181-195, the text-input loop; a fault while handling input number
\* faultAt (0: no fault) leaves the try block, so that input and every later
\* one stay as they were.
fill_text_inputs(fs, faultAt) ==
    [i \in 1..Len(fs) |->
        IF faultAt # 0 /\ i >= faultAt THEN fs[i] ELSE fill_field(fs[i])]

\* the number of field.fill(value) calls that pass made
fill_calls(fs, faultAt) ==
    Cardinality({i \in 1..Len(fs) :
        /\ faultAt = 0 \/ i < faultAt
        /\ wants_fill(fs[i])
        /\ first_match(fs[i].label) # 0})

\* Every run of _fill_smart_fields over a page: the text inputs found and
\* where a fault struck (0: nowhere, 1..Len(fs): at that text input,
\* Len(fs)+1: in the radio part, bot.py:198-209)
FillRuns == UNION {{<<fs, fa>> : fa \in 0..(Len(fs) + 1)} : fs \in PageFields}

\* what a run does to the page: <<fill() calls made, the radio part was reached>>
fill_effects == {<<fill_calls(r[1], r[2]), r[2] \notin 1..Len(r[1])>> : r \in FillRuns}

\* no page has been handed to _fill_smart_fields
IdleFill ==
    /\ fpc = "idle"
    /\ inputs0 = <<>>
    /\ inputs = <<>>
    /\ runs = 0

\* a form page with its text inputs in any state: visible or not, with or
\* without a "value" attribute, empty or already holding a live value
InitFill ==
    /\ fpc = "page"
    /\ inputs0 \in PageFields
    /\ inputs = inputs0
    /\ runs = 0

\* bot.py:179-195 with 211-212, one run of _fill_smart_fields over the text
\* inputs of the page; the run may fault at any input or after them
RunFill ==
    /\ fpc = "page"
    /\ runs < MaxRuns
    /\ \E faultAt \in 0..(Len(inputs) + 1) :
           inputs' = fill_text_inputs(inputs, faultAt)
    /\ runs' = runs + 1
    /\ UNCHANGED <<fpc, inputs0>>
    /\ UNCHANGED <<appVars, matchVars, gateVars, extractVars>>

(***************************************************************************)
(* Matcher: LLMEngine, llm_engine.py.                                      *)
(*                                                                         *)
(* A filename is a sequence of characters, so that str.lower() is a map    *)
(* over its characters.  A float is kept in fixed point, in units of       *)
(* 1/Scale, next to the three values that are no number.                   *)
(***************************************************************************)
Scale == 10000

\* llm_engine.py:223-224, the default thresholds of should_apply
default_min_confidence == 6000
default_min_match_score == 60

Names == {<<"a", "b">>, <<"A", "b">>, <<"a", "B">>, <<"c">>}

\* str.lower(), llm_engine.py:175 and 177
lower_char(c) == IF c = "A" THEN "a" ELSE IF c = "B" THEN "b" ELSE c
lower(str) == [i \in 1..Len(str) |-> lower_char(str[i])]

\* a mapping: entries with distinct filenames, in insertion order; hasText
\* says whether the record holds a usable 'text'
Entries == [filename : Names, hasText : BOOLEAN]
Mappings ==
    UNION {{m \in [1..n -> Entries] :
                \A i, j \in 1..n : i # j => m[i].filename # m[j].filename}
           : n \in 0..MaxResumes}

\* list(resumes.keys()) and "x in resumes"
keys(m) == [i \in 1..Len(m) |-> m[i].filename]
has_key(m, k) == \E i \in 1..Len(m) : m[i].filename = k

\* ---- floats ----
Num(v) == [t |-> "num", v |-> v]
NaN == [t |-> "nan", v |-> 0]
PosInf == [t |-> "inf", v |-> 0]
NegInf == [t |-> "ninf", v |-> 0]

\* x < y on floats: false whenever one side is NaN
lt(x, y) ==
    IF x.t = "nan" \/ y.t = "nan" THEN FALSE
    ELSE IF x.t = "ninf" THEN y.t # "ninf"
    ELSE IF x.t = "inf" THEN FALSE
    ELSE y.t = "inf" \/ (y.t = "num" /\ x.v < y.v)

\* Python's min(a, b) and max(a, b): the first argument unless the second
\* is strictly smaller (larger)
py_min(a, b) == IF lt(b, a) THEN b ELSE a
py_max(a, b) == IF lt(a, b) THEN b ELSE a

\* ---- what the model may answer ----
\* The response text in pieces: a fence opening a json block (three
\* backticks and the word json), a bare fence (three backticks), the text
\* of one JSON value, and any other prose.
Pieces == {"fence_json", "fence", "json", "prose"}
Texts == UNION {[1..n -> Pieces] : n \in 0..MaxTextLen}

\* the values a JSON field may hold: "bad" is a value float()/int() rejects
ConfValues == {Num(0 - 5000), Num(5000), Num(Scale), Num(15000),
               Num(85 * Scale), Num(150 * Scale),
               NaN, PosInf, NegInf, [t |-> "bad", v |-> 0]}
ScoreValues == {Num(0 - 55000), Num(50 * Scale), Num(857000), Num(101 * Scale),
                PosInf, [t |-> "bad", v |-> 0]}
NotAString == <<"0">>
SelValues == Names \cup {NotAString}
required_fields == {"selected_resume", "confidence", "reasoning", "match_score"}
FieldNames == required_fields \cup {"key_matches"}

\* A decoded JSON value: an object with some of the five fields, or a value
\* that is no object.  An absent field carries a fixed filler.
Payloads ==
    {d \in [kind : {"dict"}, has : SUBSET FieldNames,
            selected_resume : SelValues, confidence : ConfValues,
            match_score : ScoreValues] :
        /\ "selected_resume" \notin d.has => d.selected_resume = NotAString
        /\ "confidence" \notin d.has => d.confidence = NaN
        /\ "match_score" \notin d.has => d.match_score = PosInf}
    \cup
    {[kind |-> k, has |-> {}, selected_resume |-> NotAString,
      confidence |-> NaN, match_score |-> PosInf] : k \in {"list", "scalar"}}

NoResult == [kind |-> "none", has |-> {}, selected_resume |-> NotAString,
             confidence |-> NaN, match_score |-> PosInf]
NoRet == [selected_resume |-> NotAString, confidence |-> NaN,
          match_score |-> 0, reasoning |-> "", key_matches |-> ""]

\* ---- llm_engine.py:157-161, the fence stripping ----
index_of(text, piece) ==
    LET at == {i \in 1..Len(text) : text[i] = piece}
    IN  IF at = {} THEN 0 ELSE CHOOSE i \in at : \A j \in at : i <= j

\* text.split(sep)[1].split(fence)[0] where sep first occurs at position at:
\* what follows it, up to the next fence of either kind
after_fence(text, at) ==
    LET rest == SubSeq(text, at + 1, Len(text))
        stop == {i \in 1..Len(rest) : rest[i] \in {"fence_json", "fence"}}
        end == IF stop = {} THEN Len(rest)
               ELSE (CHOOSE i \in stop : \A j \in stop : i <= j) - 1
    IN  SubSeq(rest, 1, end)

strip_fence(text) ==
    IF index_of(text, "fence_json") # 0
        THEN after_fence(text, index_of(text, "fence_json"))
    ELSE IF index_of(text, "fence") # 0
        THEN after_fence(text, index_of(text, "fence"))
    ELSE text

\* json.loads(text.strip()) succeeds on the text of exactly one JSON value
json_loads_ok(text) == text = <<"json">>

\* _fallback_selection taking the last key instead of the first
_fallback_selection_last(m) ==
    [selected_resume |-> keys(m)[Len(m)],
     confidence |-> Num(Scale \div 2),
     reasoning |-> "Fallback selection due to LLM error",
     match_score |-> 50,
     key_matches |-> "[]"]

\* ---- llm_engine.py:203-216 ----
_fallback_selection(m) ==
    [selected_resume |-> keys(m)[1],
     confidence |-> Num(Scale \div 2),
     reasoning |-> "Fallback selection due to LLM error",
     match_score |-> 50,
     key_matches |-> "[]"]

\* resolve_resume without the assignment of line 178: the name is kept as
\* the model spelled it
resolve_resume_as_spelled(selected, m) ==
    IF has_key(m, selected) THEN selected
    ELSE IF selected = NotAString THEN <<>>
    ELSE LET hits == {i \in 1..Len(m) : lower(m[i].filename) = lower(selected)}
         IN  IF hits = {} THEN <<>> ELSE selected

\* ---- llm_engine.py:172-181: the key the answer names, <<>> when none ----
resolve_resume(selected, m) ==
    IF has_key(m, selected) THEN selected
    ELSE IF selected = NotAString THEN <<>>
    ELSE LET hits == {i \in 1..Len(m) : lower(m[i].filename) = lower(selected)}
         IN  IF hits = {} THEN <<>>
             ELSE m[CHOOSE i \in hits : \A j \in hits : i <= j].filename

\* normalize_confidence without the clamp of line 187
normalize_confidence_noclamp(c) ==
    IF lt(Num(Scale), c)
        THEN (IF c.t = "num" THEN Num(c.v \div 100) ELSE c)
        ELSE c

\* normalize_confidence without the division of lines 185-186
normalize_confidence_nopercent(c) ==
    py_max(Num(0), py_min(Num(Scale), c))

\* ---- llm_engine.py:184-187 ----
normalize_confidence(c) ==
    LET confidence == IF lt(Num(Scale), c)
                          THEN (IF c.t = "num" THEN Num(c.v \div 100) ELSE c)
                          ELSE c
    IN  py_max(Num(0), py_min(Num(Scale), confidence))

\* int(x) on a finite float: truncation toward zero
py_int(x) == IF x.v >= 0 THEN x.v \div Scale ELSE 0 - ((0 - x.v) \div Scale)

\* ---- llm_engine.py:190 ----
clamp_score(n) ==
    LET lo == IF 100 < n THEN 100 ELSE n
    IN  IF lo < 0 THEN 0 ELSE lo

\* validate asking for key_matches as well
validate_all_five(d, m) ==
    IF d.kind # "dict" \/ ~(FieldNames \subseteq d.has)
        THEN [ok |-> FALSE, value |-> NoRet]
    ELSE IF resolve_resume(d.selected_resume, m) = <<>>
        THEN [ok |-> FALSE, value |-> NoRet]
    ELSE IF d.confidence.t = "bad" \/ d.match_score.t # "num"
        THEN [ok |-> FALSE, value |-> NoRet]
    ELSE [ok |-> TRUE,
          value |-> [selected_resume |-> resolve_resume(d.selected_resume, m),
                     confidence |-> normalize_confidence(d.confidence),
                     reasoning |-> "reasoning of the model",
                     match_score |-> clamp_score(py_int(d.match_score)),
                     key_matches |-> IF "key_matches" \in d.has
                                         THEN "key_matches of the model"
                                         ELSE "absent"]]

\* ---- llm_engine.py:166-192: the checks on the decoded value.  ok is
\* false when one of them raises, and the handler at 198-200 answers ----
validate(d, m) ==
    IF d.kind # "dict" \/ ~(required_fields \subseteq d.has)
        THEN [ok |-> FALSE, value |-> NoRet]
    ELSE IF resolve_resume(d.selected_resume, m) = <<>>
        THEN [ok |-> FALSE, value |-> NoRet]
    ELSE IF d.confidence.t = "bad" \/ d.match_score.t # "num"
        THEN [ok |-> FALSE, value |-> NoRet]
    ELSE [ok |-> TRUE,
          value |-> [selected_resume |-> resolve_resume(d.selected_resume, m),
                     confidence |-> normalize_confidence(d.confidence),
                     reasoning |-> "reasoning of the model",
                     match_score |-> clamp_score(py_int(d.match_score)),
                     key_matches |-> IF "key_matches" \in d.has
                                         THEN "key_matches of the model"
                                         ELSE "absent"]]

InitMatcher ==
    /\ mpc = "call"
    /\ resumes \in Mappings
    /\ modelCalls = 0
    /\ response_text = <<>>
    /\ result = NoResult
    /\ path = "none"
    /\ ret = NoRet

\* llm_engine.py:65-69 with 92-149: the empty mapping is refused; the
\* prompt is then built outside the try block, and data['text'] of a record
\* without a usable text faults there
BuildPrompt ==
    /\ mpc = "call"
    /\ IF resumes = <<>>
           THEN /\ mpc' = "raised"
                /\ path' = "empty"
       ELSE IF \E i \in 1..Len(resumes) : ~resumes[i].hasText
           THEN /\ mpc' = "raised"
                /\ path' = "prompt_fault"
       ELSE /\ mpc' = "model"
            /\ UNCHANGED path
    /\ UNCHANGED <<resumes, modelCalls, response_text, result, ret>>
    /\ UNCHANGED <<appVars, gateVars, fillVars, extractVars>>

\* ModelCall asking the model again after a fault
ModelCall_retry ==
    /\ mpc = "model"
    /\ modelCalls' = modelCalls + 1
    /\ \/ /\ response_text' \in Texts
          /\ mpc' = "parse"
          /\ UNCHANGED path
       \/ /\ path' = "model_fault"
          /\ UNCHANGED <<mpc, response_text>>
    /\ UNCHANGED <<resumes, result, ret>>
    /\ UNCHANGED <<appVars, gateVars, fillVars, extractVars>>

\* llm_engine.py:75-76 and 86-89: the one model call; a fault of the call
\* or of response.text goes to the handler, which answers the fallback
ModelCall ==
    /\ mpc = "model"
    /\ modelCalls' = modelCalls + 1
    /\ \/ /\ response_text' \in Texts
          /\ mpc' = "parse"
          /\ UNCHANGED <<path, ret>>
       \/ /\ path' = "model_fault"
          /\ ret' = _fallback_selection(resumes)
          /\ mpc' = "returned"
          /\ UNCHANGED response_text
    /\ UNCHANGED <<resumes, result>>
    /\ UNCHANGED <<appVars, gateVars, fillVars, extractVars>>

\* llm_engine.py:157-164 and 194-197: strip the fence and decode; what the
\* text decodes to is any JSON value
Decode ==
    /\ mpc = "parse"
    /\ response_text' = strip_fence(response_text)
    /\ IF json_loads_ok(strip_fence(response_text))
           THEN /\ result' \in Payloads
                /\ mpc' = "validate"
                /\ UNCHANGED <<path, ret>>
           ELSE /\ path' = "json_error"
                /\ ret' = _fallback_selection(resumes)
                /\ mpc' = "returned"
                /\ UNCHANGED result
    /\ UNCHANGED <<resumes, modelCalls>>
    /\ UNCHANGED <<appVars, gateVars, fillVars, extractVars>>

\* Validate renaming the matched key of the mapping to the spelling of the
\* model, where the code rewrites the name in the decoded answer
Validate_renames_key ==
    /\ mpc = "validate"
    /\ IF validate(result, resumes).ok
           THEN /\ ret' = validate(result, resumes).value
                /\ path' = "ok"
           ELSE /\ ret' = _fallback_selection(resumes)
                /\ path' = "validation_error"
    /\ mpc' = "returned"
    /\ resumes' = [i \in 1..Len(resumes) |->
                      IF lower(resumes[i].filename) = lower(result.selected_resume)
                          THEN [resumes[i] EXCEPT !.filename = result.selected_resume]
                          ELSE resumes[i]]
    /\ UNCHANGED <<modelCalls, response_text, result>>
    /\ UNCHANGED <<appVars, gateVars, fillVars, extractVars>>

\* llm_engine.py:166-200, then 81-84: validate, normalise, return
Validate ==
    /\ mpc = "validate"
    /\ IF validate(result, resumes).ok
           THEN /\ ret' = validate(result, resumes).value
                /\ path' = "ok"
           ELSE /\ ret' = _fallback_selection(resumes)
                /\ path' = "validation_error"
    /\ mpc' = "returned"
    /\ UNCHANGED <<resumes, modelCalls, response_text, result>>
    /\ UNCHANGED <<appVars, gateVars, fillVars, extractVars>>

MatcherNext ==
    \/ BuildPrompt
    \/ ModelCall
    \/ Decode
    \/ Validate

\* the Applicator before any call
IdleApp ==
    /\ pc = "idle"
    /\ page = FALSE
    /\ dryRun = FALSE
    /\ outcome = "none"
    /\ faulted = FALSE
    /\ sel = 0
    /\ clicked = FALSE
    /\ applyClicks = 0
    /\ firstVis = 0
    /\ triggered = 0
    /\ iters = 0
    /\ formPage = 0
    /\ submitVis = FALSE
    /\ nextVis = FALSE
    /\ reviewVis = FALSE
    /\ errVis = FALSE
    /\ submitOnNew = FALSE
    /\ fills = 0
    /\ radioClicked = FALSE
    /\ attaches = 0
    /\ submitClicks = 0
    /\ nextClicks = 0
    /\ reviewClicks = 0

(***************************************************************************)
(* Matcher: LLMEngine.extract_job_info, llm_engine.py:263-305.             *)
(***************************************************************************)
InfoFields == {"company", "location", "experience_level", "key_skills"}

\* a decoded JSON object holding the fields of has, each as the model wrote it
info_of(has) ==
    [kind |-> "dict", has |-> has,
     company |-> IF "company" \in has THEN "company of the model" ELSE "absent",
     location |-> IF "location" \in has THEN "location of the model" ELSE "absent",
     experience_level |-> IF "experience_level" \in has
                              THEN "experience_level of the model" ELSE "absent",
     key_skills |-> IF "key_skills" \in has
                        THEN "key_skills of the model" ELSE "absent"]

\* a decoded JSON value that is no object
not_an_object(k) ==
    [kind |-> k, has |-> {}, company |-> "absent", location |-> "absent",
     experience_level |-> "absent", key_skills |-> "absent"]

\* what json.loads may produce from the text of one JSON value
InfoValues == {info_of(has) : has \in SUBSET InfoFields}
                  \cup {not_an_object(k) : k \in {"list", "scalar"}}

NoInfo == not_an_object("none")

\* llm_engine.py:300-305, the default record of the handler
default_info ==
    [kind |-> "dict", has |-> InfoFields,
     company |-> "Unknown", location |-> "Not specified",
     experience_level |-> "Not specified", key_skills |-> "[]"]

\* llm_engine.py:293-294, only a fence that opens a json block is stripped
strip_json_fence(text) ==
    IF index_of(text, "fence_json") # 0
        THEN after_fence(text, index_of(text, "fence_json"))
        ELSE text

IdleExtract ==
    /\ epc = "idle"
    /\ etext = <<>>
    /\ epath = "none"
    /\ einfo = NoInfo

InitExtract ==
    /\ epc = "call"
    /\ etext = <<>>
    /\ epath = "none"
    /\ einfo = NoInfo

\* llm_engine.py:275-290 and 298-305: the prompt, the model call and
\* response.text.strip(); a fault goes to the handler, which answers the
\* default record
ExtractCall ==
    /\ epc = "call"
    /\ \/ /\ etext' \in Texts
          /\ epc' = "decode"
          /\ UNCHANGED <<epath, einfo>>
       \/ /\ epath' = "model_fault"
          /\ einfo' = default_info
          /\ epc' = "returned"
          /\ UNCHANGED etext
    /\ UNCHANGED <<appVars, matchVars, gateVars, fillVars>>

\* llm_engine.py:292-296 and 298-305: strip the json fence and return what
\* json.loads produces, as it is; a text that does not decode goes to the
\* handler
ExtractDecode ==
    /\ epc = "decode"
    /\ etext' = strip_json_fence(etext)
    /\ IF json_loads_ok(strip_json_fence(etext))
           THEN /\ einfo' \in InfoValues
                /\ epath' = "ok"
           ELSE /\ einfo' = default_info
                /\ epath' = "json_error"
    /\ epc' = "returned"
    /\ UNCHANGED <<appVars, matchVars, gateVars, fillVars>>

(***************************************************************************)
(* Matcher: LLMEngine.should_apply, llm_engine.py:219-260.                 *)
(*                                                                         *)
(* A job description is a sequence of words, each in lower case or not, so *)
(* that str.lower() drops the case of every word and "flag in text" is the *)
(* search for a run of words.                                              *)
(***************************************************************************)
Word(w, up) == [letters |-> w, upper |-> up]

JdWords == {Word("commission", FALSE), Word("commission", TRUE),
            Word("only", FALSE), Word("only", TRUE),
            Word("pay", FALSE), Word("to", FALSE), Word("apply", FALSE)}

Descriptions == UNION {[1..n -> JdWords] : n \in 0..MaxJdLen}

\* job_description.lower(), llm_engine.py:252
lower_text(text) == [i \in 1..Len(text) |-> Word(text[i].letters, FALSE)]

\* llm_engine.py:251
red_flags == << <<Word("commission", FALSE), Word("only", FALSE)>>,
                <<Word("pay", FALSE), Word("to", FALSE), Word("apply", FALSE)>> >>

\* "needle in hay" on strings: is needle found starting at position i or later
RECURSIVE find_from(_, _, _)
find_from(needle, hay, i) ==
    IF i + Len(needle) - 1 > Len(hay) THEN FALSE
    ELSE IF SubSeq(hay, i, i + Len(needle) - 1) = needle THEN TRUE
    ELSE find_from(needle, hay, i + 1)

py_in(needle, hay) == find_from(needle, hay, 1)

\* The match results should_apply is handed: confidence in units of 1/Scale
\* and match_score, either of which the dictionary may lack (the value kept
\* for a lacking key is never read).
MatchResults ==
    {r \in [has : SUBSET {"confidence", "match_score"},
            confidence : {5000, 6000, Scale}, match_score : {50, 60, 100}] :
        /\ "confidence" \notin r.has <=> r.confidence = Scale
        /\ "match_score" \notin r.has <=> r.match_score = 100}

\* match_result.get(key, 0), llm_engine.py:238-239
get_confidence(r) == IF "confidence" \in r.has THEN r.confidence ELSE 0
get_score(r) == IF "match_score" \in r.has THEN r.match_score ELSE 0

\* llm_engine.py:254-257, the loop over red_flags from flag number i on
RECURSIVE flagged_from(_, _)
flagged_from(job_lower, i) ==
    IF i > Len(red_flags) THEN FALSE
    ELSE IF py_in(red_flags[i], job_lower) THEN TRUE
    ELSE flagged_from(job_lower, i + 1)

\* should_apply with its gates in the other order
should_apply_score_first(jd, r, min_c, min_s) ==
    IF get_score(r) < min_s
        THEN [apply |-> FALSE, why |-> "Low match score"]
    ELSE IF get_confidence(r) < min_c
        THEN [apply |-> FALSE, why |-> "Low confidence"]
    ELSE IF flagged_from(lower_text(jd), 1)
        THEN [apply |-> FALSE, why |-> "Red flag detected"]
    ELSE [apply |-> TRUE, why |-> "Good match"]

\* should_apply without its two threshold gates
should_apply_red_flags_only(jd, r, min_c, min_s) ==
    IF flagged_from(lower_text(jd), 1)
        THEN [apply |-> FALSE, why |-> "Red flag detected"]
        ELSE [apply |-> TRUE, why |-> "Good match"]

\* llm_engine.py:238-260: the value returned and the line printed with it
should_apply(jd, r, min_c, min_s) ==
    IF get_confidence(r) < min_c
        THEN [apply |-> FALSE, why |-> "Low confidence"]
    ELSE IF get_score(r) < min_s
        THEN [apply |-> FALSE, why |-> "Low match score"]
    ELSE IF flagged_from(lower_text(jd), 1)
        THEN [apply |-> FALSE, why |-> "Red flag detected"]
    ELSE [apply |-> TRUE, why |-> "Good match"]

NoDecision == [apply |-> FALSE, why |-> ""]

InitGate ==
    /\ gpc = "call"
    /\ job_description \in Descriptions
    /\ match_result \in MatchResults
    /\ min_confidence \in {default_min_confidence, 4000}
    /\ min_match_score \in {default_min_match_score, 40}
    /\ decision = NoDecision

\* one call of should_apply
ShouldApply ==
    /\ gpc = "call"
    /\ decision' = should_apply(job_description, match_result,
                                min_confidence, min_match_score)
    /\ gpc' = "returned"
    /\ UNCHANGED <<job_description, match_result, min_confidence, min_match_score>>
    /\ UNCHANGED <<appVars, matchVars, fillVars, extractVars>>

\* the Matcher before any call
IdleMatcher ==
    /\ mpc = "idle"
    /\ resumes = <<>>
    /\ modelCalls = 0
    /\ response_text = <<>>
    /\ result = NoResult
    /\ path = "none"
    /\ ret = NoRet

\* the gate before any call
IdleGate ==
    /\ gpc = "idle"
    /\ job_description = <<>>
    /\ match_result = [has |-> {}, confidence |-> Scale, match_score |-> 100]
    /\ min_confidence = default_min_confidence
    /\ min_match_score = default_min_match_score
    /\ decision = NoDecision

MatcherInit == InitMatcher /\ IdleApp /\ IdleGate /\ IdleFill /\ IdleExtract

MatcherSpec == MatcherInit /\ [][MatcherNext]_vars

GateInit == InitGate /\ IdleApp /\ IdleMatcher /\ IdleFill /\ IdleExtract

GateNext == ShouldApply

GateSpec == GateInit /\ [][GateNext]_vars

FillInit == InitFill /\ IdleApp /\ IdleMatcher /\ IdleGate /\ IdleExtract

FillNext == RunFill

FillSpec == FillInit /\ [][FillNext]_vars

ExtractInit == InitExtract /\ IdleApp /\ IdleMatcher /\ IdleGate /\ IdleFill

ExtractNext == ExtractCall \/ ExtractDecode

ExtractSpec == ExtractInit /\ [][ExtractNext]_vars

(***************************************************************************)
(* Applicator: JobBot.apply_to_job, bot.py:76-173.  A faulting human_click *)
(* sends no click to the page.                                             *)
(***************************************************************************)
InitApp ==
    /\ pc = "enter"
    /\ page \in BOOLEAN
    /\ dryRun \in BOOLEAN
    /\ outcome = "none"
    /\ faulted = FALSE
    /\ sel = 0
    /\ clicked = FALSE
    /\ applyClicks = 0
    /\ firstVis = 0
    /\ triggered = 0
    /\ iters = 0
    /\ formPage = 0
    /\ submitVis = FALSE
    /\ nextVis = FALSE
    /\ reviewVis = FALSE
    /\ errVis = FALSE
    /\ submitOnNew = FALSE
    /\ fills = 0
    /\ radioClicked = FALSE
    /\ attaches = 0
    /\ submitClicks = 0
    /\ nextClicks = 0
    /\ reviewClicks = 0

probeVars == <<sel, clicked, applyClicks, firstVis, triggered>>
formVars == <<formPage, submitVis, nextVis, reviewVis, errVis, submitOnNew>>
effectVars == <<fills, radioClicked, attaches, submitClicks, nextClicks,
                reviewClicks>>

\* "return <string>" from inside the try block
Return(o) ==
    /\ pc' = "returned"
    /\ outcome' = o

\* bot.py:171-173, the handler of the outer try: a fault raised in
\* apply_to_job's frame becomes the string "Failed: ..."
Except ==
    /\ faulted' = TRUE
    /\ Return("FailedException")

\* bot.py:80, self.page is already set: start_browser is not called
Enter ==
    /\ pc = "enter"
    /\ page
    /\ pc' = "goto"
    /\ UNCHANGED <<page, dryRun, outcome, faulted, iters>>
    /\ UNCHANGED <<probeVars, formVars, effectVars>>
    /\ UNCHANGED <<matchVars, gateVars, fillVars, extractVars>>

\* bot.py:80-81 with 38-74: no page yet, so start_browser() runs, outside
\* the try block.  It returns with self.page set, or it faults (before or
\* after self.page was assigned at line 64) and the fault leaves apply_to_job.
StartBrowser ==
    /\ pc = "enter"
    /\ ~page
    /\ \/ /\ page' = TRUE
          /\ pc' = "goto"
          /\ UNCHANGED faulted
       \/ /\ page' \in BOOLEAN
          /\ pc' = "raised"
          /\ faulted' = TRUE
    /\ UNCHANGED <<dryRun, outcome, iters>>
    /\ UNCHANGED <<probeVars, formVars, effectVars>>
    /\ UNCHANGED <<matchVars, gateVars, fillVars, extractVars>>

\* bot.py:85-89, page.goto, the page-load wait and simulate_reading_pattern
Goto ==
    /\ pc = "goto"
    /\ \/ /\ pc' = "probe"
          /\ sel' = 1
          /\ UNCHANGED <<outcome, faulted>>
       \/ /\ Except
          /\ UNCHANGED sel
    /\ UNCHANGED <<page, dryRun, iters, clicked, applyClicks, firstVis, triggered>>
    /\ UNCHANGED <<formVars, effectVars>>
    /\ UNCHANGED <<matchVars, gateVars, fillVars, extractVars>>

\* bot.py:106-115, one pass of the probe loop over apply_locators[sel];
\* vis is what count() > 0 and is_visible() answered for that candidate
Probe ==
    /\ pc = "probe"
    /\ sel \in 1..Len(apply_locators)
    /\ \/ \* locator/count/is_visible faults: caught at 114, next selector
          /\ sel' = sel + 1
          /\ faulted' = TRUE
          /\ UNCHANGED <<pc, clicked, applyClicks, firstVis, triggered>>
          /\ UNCHANGED <<formPage, iters>>
       \/ \E vis \in BOOLEAN :
           /\ firstVis' = IF vis /\ firstVis = 0 THEN sel ELSE firstVis
           /\ \/ \* not there, or not visible: next selector
                 /\ ~vis
                 /\ sel' = sel + 1
                 /\ UNCHANGED <<pc, clicked, applyClicks, triggered, faulted>>
                 /\ UNCHANGED <<formPage, iters>>
              \/ \* visible and human_click returns: clicked = True; break,
                 \* and the loop at 126 starts its first pass on form page 1
                 /\ vis
                 /\ clicked' = TRUE
                 /\ applyClicks' = applyClicks + 1
                 /\ triggered' = sel
                 /\ formPage' = 1
                 /\ pc' = "fill"
                 /\ iters' = 1
                 /\ UNCHANGED <<sel, faulted>>
              \/ \* visible and human_click faults: caught at 114, next selector
                 /\ vis
                 /\ sel' = sel + 1
                 /\ faulted' = TRUE
                 /\ UNCHANGED <<pc, clicked, applyClicks, triggered>>
                 /\ UNCHANGED <<formPage, iters>>
    /\ UNCHANGED <<page, dryRun, outcome, effectVars>>
    /\ UNCHANGED <<submitVis, nextVis, reviewVis, errVis, submitOnNew>>
    /\ UNCHANGED <<matchVars, gateVars, fillVars, extractVars>>

\* NoApply without its return: the call runs on into the form loop
NoApply_fallthrough ==
    /\ pc = "probe"
    /\ sel \notin 1..Len(apply_locators)
    /\ ~clicked
    /\ pc' = "fill"
    /\ iters' = 1
    /\ formPage' = 1
    /\ UNCHANGED <<page, dryRun, outcome, faulted>>
    /\ UNCHANGED <<probeVars, effectVars>>
    /\ UNCHANGED <<submitVis, nextVis, reviewVis, errVis, submitOnNew>>
    /\ UNCHANGED <<matchVars, gateVars, fillVars, extractVars>>

\* bot.py:117-119, the list is exhausted without a break
NoApply ==
    /\ pc = "probe"
    /\ sel \notin 1..Len(apply_locators)
    /\ ~clicked
    /\ Return("Skipped")
    /\ UNCHANGED <<page, dryRun, faulted, iters>>
    /\ UNCHANGED <<probeVars, formVars, effectVars>>
    /\ UNCHANGED <<matchVars, gateVars, fillVars, extractVars>>

\* bot.py:175-212, _fill_smart_fields: the text inputs, then the radio
\* groups, all inside one try whose handler is "pass"
FillSmartFields ==
    /\ pc = "fill"
    /\ \E e \in fill_effects :
        /\ fills' = fills + e[1]
        /\ IF e[2] THEN radioClicked' \in BOOLEAN ELSE UNCHANGED radioClicked
    /\ pc' = "upload"
    /\ UNCHANGED <<page, dryRun, outcome, faulted, iters>>
    /\ UNCHANGED <<probeVars, formVars>>
    /\ UNCHANGED <<attaches, submitClicks, nextClicks, reviewClicks>>
    /\ UNCHANGED <<matchVars, gateVars, fillVars, extractVars>>

\* bot.py:224-235, _handle_upload: attach when the file input is visible and
\* has no value; every fault is swallowed by the bare except
HandleUpload ==
    /\ pc = "upload"
    /\ \E vis \in BOOLEAN, empty \in BOOLEAN, fault \in BOOLEAN :
        attaches' = IF vis /\ empty /\ ~fault THEN attaches + 1 ELSE attaches
    /\ pc' = "submit"
    /\ UNCHANGED <<page, dryRun, outcome, faulted, iters>>
    /\ UNCHANGED <<probeVars, formVars>>
    /\ UNCHANGED <<fills, radioClicked, submitClicks, nextClicks, reviewClicks>>
    /\ UNCHANGED <<matchVars, gateVars, fillVars, extractVars>>

\* CheckSubmit ignoring DRY_RUN: the submit click is sent in a dry run too
CheckSubmit_ignores_dry_run ==
    /\ pc = "submit"
    /\ \/ \* is_visible faults: nothing of the page was seen
          /\ Except
          /\ UNCHANGED <<submitClicks, submitVis, nextVis, reviewVis, errVis>>
       \/ /\ submitVis' \in BOOLEAN
          /\ nextVis' \in BOOLEAN
          /\ reviewVis' \in BOOLEAN
          /\ errVis' \in BOOLEAN
          /\ \/ \* not visible: on to D
                /\ ~submitVis'
                /\ pc' = "next"
                /\ UNCHANGED <<outcome, faulted, submitClicks>>
             \/ \* visible under DRY_RUN: clicked all the same
                /\ submitVis'
                /\ dryRun
                /\ Return("Success")
                /\ submitClicks' = submitClicks + 1
                /\ UNCHANGED faulted
             \/ \* visible, human_click returns
                /\ submitVis'
                /\ ~dryRun
                /\ submitClicks' = submitClicks + 1
                /\ Return("Success")
                /\ UNCHANGED faulted
             \/ \* visible, human_click faults
                /\ submitVis'
                /\ ~dryRun
                /\ faulted' = TRUE
                /\ Return("FailedSubmit")
                /\ UNCHANGED submitClicks
    /\ UNCHANGED <<page, dryRun, iters, probeVars, formPage, submitOnNew>>
    /\ UNCHANGED <<fills, radioClicked, attaches, nextClicks, reviewClicks>>
    /\ UNCHANGED <<matchVars, gateVars, fillVars, extractVars>>

\* CheckSubmit without the return of line 149 in a dry run: the step goes on
\* to the next/review check
CheckSubmit_dry_run_goes_on ==
    /\ pc = "submit"
    /\ \/ \* is_visible faults: nothing of the page was seen
          /\ Except
          /\ UNCHANGED <<submitClicks, submitVis, nextVis, reviewVis, errVis>>
       \/ /\ submitVis' \in BOOLEAN
          /\ nextVis' \in BOOLEAN
          /\ reviewVis' \in BOOLEAN
          /\ errVis' \in BOOLEAN
          /\ \/ \* not visible: on to D
                /\ ~submitVis'
                /\ pc' = "next"
                /\ UNCHANGED <<outcome, faulted, submitClicks>>
             \/ \* visible under DRY_RUN: no click, and on to D
                /\ submitVis'
                /\ dryRun
                /\ pc' = "next"
                /\ UNCHANGED <<outcome, faulted, submitClicks>>
             \/ \* visible, human_click returns
                /\ submitVis'
                /\ ~dryRun
                /\ submitClicks' = submitClicks + 1
                /\ Return("Success")
                /\ UNCHANGED faulted
             \/ \* visible, human_click faults
                /\ submitVis'
                /\ ~dryRun
                /\ faulted' = TRUE
                /\ Return("FailedSubmit")
                /\ UNCHANGED submitClicks
    /\ UNCHANGED <<page, dryRun, iters, probeVars, formPage, submitOnNew>>
    /\ UNCHANGED <<fills, radioClicked, attaches, nextClicks, reviewClicks>>
    /\ UNCHANGED <<matchVars, gateVars, fillVars, extractVars>>

\* CheckSubmit without the return of line 149 after a submit click: the
\* step goes on to the next/review check
CheckSubmit_click_goes_on ==
    /\ pc = "submit"
    /\ \/ \* is_visible faults: nothing of the page was seen
          /\ Except
          /\ UNCHANGED <<submitClicks, submitVis, nextVis, reviewVis, errVis>>
       \/ /\ submitVis' \in BOOLEAN
          /\ nextVis' \in BOOLEAN
          /\ reviewVis' \in BOOLEAN
          /\ errVis' \in BOOLEAN
          /\ \/ \* not visible: on to D
                /\ ~submitVis'
                /\ pc' = "next"
                /\ UNCHANGED <<outcome, faulted, submitClicks>>
             \/ \* visible under DRY_RUN: no click
                /\ submitVis'
                /\ dryRun
                /\ Return("Success")
                /\ UNCHANGED <<faulted, submitClicks>>
             \/ \* visible, human_click returns, and on to D
                /\ submitVis'
                /\ ~dryRun
                /\ submitClicks' = submitClicks + 1
                /\ pc' = "next"
                /\ UNCHANGED <<outcome, faulted>>
             \/ \* visible, human_click faults
                /\ submitVis'
                /\ ~dryRun
                /\ faulted' = TRUE
                /\ Return("FailedSubmit")
                /\ UNCHANGED submitClicks
    /\ UNCHANGED <<page, dryRun, iters, probeVars, formPage, submitOnNew>>
    /\ UNCHANGED <<fills, radioClicked, attaches, nextClicks, reviewClicks>>
    /\ UNCHANGED <<matchVars, gateVars, fillVars, extractVars>>

\* bot.py:135-149, C. Check for SUBMIT.  The step now looks at the controls
\* of the form page: what is visible on it is fixed here.
CheckSubmit ==
    /\ pc = "submit"
    /\ \/ \* is_visible faults: nothing of the page was seen
          /\ Except
          /\ UNCHANGED <<submitClicks, submitVis, nextVis, reviewVis, errVis>>
       \/ /\ submitVis' \in BOOLEAN
          /\ nextVis' \in BOOLEAN
          /\ reviewVis' \in BOOLEAN
          /\ errVis' \in BOOLEAN
          /\ \/ \* not visible: on to D
                /\ ~submitVis'
                /\ pc' = "next"
                /\ UNCHANGED <<outcome, faulted, submitClicks>>
             \/ \* visible under DRY_RUN: no click
                /\ submitVis'
                /\ dryRun
                /\ Return("Success")
                /\ UNCHANGED <<faulted, submitClicks>>
             \/ \* visible, human_click returns
                /\ submitVis'
                /\ ~dryRun
                /\ submitClicks' = submitClicks + 1
                /\ Return("Success")
                /\ UNCHANGED faulted
             \/ \* visible, human_click faults
                /\ submitVis'
                /\ ~dryRun
                /\ faulted' = TRUE
                /\ Return("FailedSubmit")
                /\ UNCHANGED submitClicks
    /\ UNCHANGED <<page, dryRun, iters, probeVars, formPage, submitOnNew>>
    /\ UNCHANGED <<fills, radioClicked, attaches, nextClicks, reviewClicks>>
    /\ UNCHANGED <<matchVars, gateVars, fillVars, extractVars>>

\* bot.py:168-170, the end of the loop body once next/review was clicked:
\* the wait, then return "Failed (Too many steps)", which stands inside
\* the for loop.
LoopTail ==
    /\ Return("FailedTooManySteps")
    /\ UNCHANGED <<iters, faulted>>

\* a next/review click reached the page: the form shows its next page
Advance ==
    /\ formPage' = formPage + 1
    /\ submitOnNew' \in BOOLEAN

\* CheckNext followed by an "if" on Review where the code has "elif"
CheckNext_then_review ==
    /\ pc = "next"
    /\ \/ \* is_visible faults
          /\ Except
          /\ UNCHANGED <<nextClicks, formPage, submitOnNew, iters>>
       \/ \* not visible: the elif
          /\ ~nextVis
          /\ pc' = "review"
          /\ UNCHANGED <<outcome, faulted, nextClicks, formPage, submitOnNew, iters>>
       \/ \* visible, human_click returns; Review is looked at as well
          /\ nextVis
          /\ nextClicks' = nextClicks + 1
          /\ Advance
          /\ pc' = "review"
          /\ UNCHANGED <<outcome, faulted, iters>>
       \/ \* visible, human_click faults
          /\ nextVis
          /\ Except
          /\ UNCHANGED <<nextClicks, formPage, submitOnNew, iters>>
    /\ UNCHANGED <<page, dryRun, probeVars>>
    /\ UNCHANGED <<submitVis, nextVis, reviewVis, errVis>>
    /\ UNCHANGED <<fills, radioClicked, attaches, submitClicks, reviewClicks>>
    /\ UNCHANGED <<matchVars, gateVars, fillVars, extractVars>>

\* bot.py:152-156, D. Check for NEXT
CheckNext ==
    /\ pc = "next"
    /\ \/ \* is_visible faults
          /\ Except
          /\ UNCHANGED <<nextClicks, formPage, submitOnNew, iters>>
       \/ \* not visible: the elif
          /\ ~nextVis
          /\ pc' = "review"
          /\ UNCHANGED <<outcome, faulted, nextClicks, formPage, submitOnNew, iters>>
       \/ \* visible, human_click returns
          /\ nextVis
          /\ nextClicks' = nextClicks + 1
          /\ Advance
          /\ LoopTail
       \/ \* visible, human_click faults
          /\ nextVis
          /\ Except
          /\ UNCHANGED <<nextClicks, formPage, submitOnNew, iters>>
    /\ UNCHANGED <<page, dryRun, probeVars>>
    /\ UNCHANGED <<submitVis, nextVis, reviewVis, errVis>>
    /\ UNCHANGED <<fills, radioClicked, attaches, submitClicks, reviewClicks>>
    /\ UNCHANGED <<matchVars, gateVars, fillVars, extractVars>>

\* bot.py:157-158, the elif on REVIEW
CheckReview ==
    /\ pc = "review"
    /\ \/ /\ Except
          /\ UNCHANGED <<reviewClicks, formPage, submitOnNew, iters>>
       \/ /\ ~reviewVis
          /\ pc' = "error"
          /\ UNCHANGED <<outcome, faulted, reviewClicks, formPage, submitOnNew, iters>>
       \/ /\ reviewVis
          /\ reviewClicks' = reviewClicks + 1
          /\ Advance
          /\ LoopTail
       \/ /\ reviewVis
          /\ Except
          /\ UNCHANGED <<reviewClicks, formPage, submitOnNew, iters>>
    /\ UNCHANGED <<page, dryRun, probeVars>>
    /\ UNCHANGED <<submitVis, nextVis, reviewVis, errVis>>
    /\ UNCHANGED <<fills, radioClicked, attaches, submitClicks, nextClicks>>
    /\ UNCHANGED <<matchVars, gateVars, fillVars, extractVars>>

\* CheckError polling the form again instead of giving up
CheckError_retry ==
    /\ pc = "error"
    /\ pc' = "submit"
    /\ UNCHANGED <<page, dryRun, outcome, faulted, iters>>
    /\ UNCHANGED <<probeVars, formVars, effectVars>>
    /\ UNCHANGED <<matchVars, gateVars, fillVars, extractVars>>

\* CheckError that does not look at the error indicator
CheckError_always_stuck ==
    /\ pc = "error"
    /\ \/ /\ Except
       \/ /\ Return("FailedStuck")
          /\ UNCHANGED faulted
    /\ UNCHANGED <<page, dryRun, iters>>
    /\ UNCHANGED <<probeVars, formVars, effectVars>>
    /\ UNCHANGED <<matchVars, gateVars, fillVars, extractVars>>

\* bot.py:159-166, neither is visible: the error indicator decides
CheckError ==
    /\ pc = "error"
    /\ \/ /\ Except
       \/ /\ errVis
          /\ Return("FailedFormError")
          /\ UNCHANGED faulted
       \/ /\ ~errVis
          /\ Return("FailedStuck")
          /\ UNCHANGED faulted
    /\ UNCHANGED <<page, dryRun, iters>>
    /\ UNCHANGED <<probeVars, formVars, effectVars>>
    /\ UNCHANGED <<matchVars, gateVars, fillVars, extractVars>>

Init == InitApp /\ IdleMatcher /\ IdleGate /\ IdleFill /\ IdleExtract

Next ==
    \/ Enter
    \/ StartBrowser
    \/ Goto
    \/ Probe
    \/ NoApply
    \/ FillSmartFields
    \/ HandleUpload
    \/ CheckSubmit
    \/ CheckNext
    \/ CheckReview
    \/ CheckError

Spec == Init /\ [][Next]_vars

\* apply_to_job is straight-line synchronous code: a call that can take a
\* step takes it
FairSpec == Spec /\ WF_vars(Next)

(***************************************************************************)
(* Properties of the Applicator.                                           *)
(***************************************************************************)
\* the call is over: it returned a value or a fault left it
Ended == pc \in {"returned", "raised"}

\* C1: every call of apply_to_job ends by returning one of the seven
\* outcomes; no fault leaves the call, whatever the page does and wherever
\* the fault strikes (starting the browser included).
C1_SevenOutcomesNeverRaises ==
    Ended => (pc = "returned" /\ outcome \in Outcomes)

\* C2: when the form left its earlier pages through next/review without a
\* fault and shows its submit affordance on page k, 2 <= k <= max_steps, the
\* call goes on to that page and returns Success.
C2_ProgressReachesSubmit ==
    (/\ pc = "returned"
     /\ ~faulted
     /\ formPage \in 2..max_steps
     /\ nextClicks + reviewClicks = formPage - 1
     /\ submitOnNew)
        => outcome = "Success"

\* C3: the loop runs at most max_steps iterations, and FailedTooManySteps is
\* returned only after max_steps iterations, never after fewer.
C3_TooManyStepsOnlyAtBudget ==
    /\ iters <= max_steps
    /\ outcome = "FailedTooManySteps" => iters = max_steps

\* C4: every call of apply_to_job comes to an end, whatever the page shows:
\* the form loop cannot go on forever.
C4_Terminates == <>Ended

\* C4 witness: a call that found Next visible and no submit affordance, and
\* is over
C4_Witness ==
    /\ pc = "returned"
    /\ nextVis
    /\ ~submitVis
    /\ nextClicks = 1

\* C10: a call that navigated and found none of the candidate apply
\* affordances visible returns Skipped, having filled no field, attached no
\* document and triggered neither submit nor next nor review.
C10_NoApplySkipped ==
    (pc = "returned" /\ sel >= 1 /\ firstVis = 0)
        => /\ outcome = "Skipped"
           /\ fills = 0
           /\ ~radioClicked
           /\ attaches = 0
           /\ submitClicks = 0
           /\ nextClicks = 0
           /\ reviewClicks = 0

\* C10 witness: all candidates were probed, none was visible, the call is over
C10_Witness ==
    /\ pc = "returned"
    /\ sel = Len(apply_locators) + 1
    /\ firstVis = 0

\* C11: a call that saw the submit affordance visible while the dry-run flag
\* is set returns Success and has sent no submit click to the page.
C11_DryRunNoSubmitClick ==
    (pc = "returned" /\ dryRun /\ submitVis)
        => (outcome = "Success" /\ submitClicks = 0)

\* C11 witness: a dry run that found the submit affordance visible and is over
C11_Witness ==
    /\ pc = "returned"
    /\ dryRun
    /\ submitVis
    /\ formPage = 1


\* the click on the first candidate seen visible faulted: that candidate was
\* seen and is not the one triggered
ApplyClickFaulted == firstVis # 0 /\ triggered # firstVis

\* C12: a fault raised while clicking an apply affordance (as one raised
\* while navigating, filling or clicking next/review) ends the call with
\* FailedException; the attempt does not go on to another outcome.
C12_FaultYieldsFailedException ==
    (pc = "returned" /\ ApplyClickFaulted) => outcome = "FailedException"

\* C13: _fill_smart_fields never changes a text input whose value is already
\* non-empty, however often it runs over the page, whatever the label.
C13_FilledFieldUnchanged ==
    \A i \in 1..Len(inputs) :
        inputs0[i].value # "" => inputs[i].value = inputs0[i].value

\* C16: a form step that sees the submit affordance visible ends there, with
\* Success, or with FailedSubmit when the submit click faults outside a dry
\* run; it triggers neither next nor review, visible or not; and Success is
\* returned only from a step that saw the submit affordance visible.
C16_SubmitEndsTheStep ==
    /\ submitVis =>
        /\ pc = "returned"
        /\ outcome \in {"Success", "FailedSubmit"}
        /\ outcome = "FailedSubmit" => (~dryRun /\ faulted /\ submitClicks = 0)
        /\ nextClicks = 0
        /\ reviewClicks = 0
    /\ outcome = "Success" => submitVis

\* C16 witness: submit, next and review were all visible and the call is over
C16_Witness ==
    /\ pc = "returned"
    /\ submitVis
    /\ nextVis
    /\ reviewVis
    /\ outcome = "Success"

\* C17: a form step that does not see the submit affordance triggers at most
\* one of next and review: next when next is visible, whether or not review
\* is visible too, and review only when next is not visible.
C17_OneProgressionPerStep ==
    /\ nextClicks + reviewClicks <= 1
    /\ nextClicks = 1 => (nextVis /\ ~submitVis)
    /\ reviewClicks = 1 => (reviewVis /\ ~nextVis /\ ~submitVis)
    /\ (pc = "returned" /\ formPage >= 1 /\ ~submitVis
           /\ outcome # "FailedException") =>
        /\ nextVis => (nextClicks = 1 /\ reviewClicks = 0)
        /\ (~nextVis /\ reviewVis) => (reviewClicks = 1 /\ nextClicks = 0)

\* C17 witness: next and review were both visible, submit was not, and next
\* was triggered
C17_Witness ==
    /\ pc = "returned"
    /\ ~submitVis
    /\ nextVis
    /\ reviewVis
    /\ nextClicks = 1

\* C18: a form step that sees none of submit, next and review returns
\* FailedFormError when the inline error indicator is visible and FailedStuck
\* otherwise; neither outcome comes from a step that saw one of the three.
C18_ErrorOrStuck ==
    /\ (pc = "returned" /\ formPage >= 1 /\ outcome # "FailedException"
           /\ ~submitVis /\ ~nextVis /\ ~reviewVis) =>
        outcome = IF errVis THEN "FailedFormError" ELSE "FailedStuck"
    /\ outcome \in {"FailedFormError", "FailedStuck"} =>
        (~submitVis /\ ~nextVis /\ ~reviewVis)

\* C18 witness: nothing to click, the error indicator is visible, the call
\* is over
C18_Witness ==
    /\ pc = "returned"
    /\ formPage = 1
    /\ ~submitVis
    /\ ~nextVis
    /\ ~reviewVis
    /\ errVis
    /\ outcome = "FailedFormError"

\* C19: the candidates are probed in list order and the first one seen
\* visible is the one triggered; after a trigger no later candidate is probed
\* or triggered, so at most one apply affordance is triggered per call.
C19_FirstVisibleTriggered ==
    /\ applyClicks <= 1
    /\ clicked => (applyClicks = 1 /\ sel = triggered)
    /\ triggered # 0 => triggered = firstVis

\* C24: a call clicks the submit affordance at most once, only outside a dry
\* run and in a step that saw it visible after that step's fill and upload
\* were attempted; the click, or its fault, ends the call, and a call that
\* has ended fills, attaches and clicks nothing more.
C24_SubmitOnceThenReturn ==
    [][/\ submitClicks' # submitClicks =>
            /\ submitClicks = 0
            /\ submitClicks' = 1
            /\ ~dryRun
            /\ submitVis'
            /\ pc = "submit"
            /\ pc' = "returned"
       /\ (outcome' = "FailedSubmit" /\ outcome # "FailedSubmit") =>
            (pc = "submit" /\ pc' = "returned" /\ submitVis' /\ ~dryRun)
       /\ (pc' = "submit" /\ pc # "submit") => pc = "upload"
       /\ (pc' = "upload" /\ pc # "upload") => pc = "fill"
       /\ pc = "returned" =>
            (pc' = "returned" /\ UNCHANGED <<outcome, effectVars>>)]_vars

\* C24 witness: a call that filled a field, attached the document, clicked
\* submit and is over
C24_Witness ==
    /\ pc = "returned"
    /\ submitClicks = 1
    /\ fills >= 1
    /\ attaches = 1
    /\ outcome = "Success"

(***************************************************************************)
(* Properties of the Matcher.                                              *)
(***************************************************************************)
\* C5: whatever the model answers, the MatchResult select_best_resume
\* returns names a key of the mapping, has a confidence in [0,1] and an
\* integer match_score in [0,100].
C5_ResultInRange ==
    mpc = "returned"
        => /\ \E i \in 1..Len(resumes) : resumes[i].filename = ret.selected_resume
           /\ ret.confidence.t = "num"
           /\ ret.confidence.v >= 0
           /\ ret.confidence.v <= Scale
           /\ ret.match_score \in 0..100

\* C5 witness: an accepted answer whose confidence and score were both
\* out of range
C5_Witness ==
    /\ mpc = "returned"
    /\ path = "ok"
    /\ result.confidence = Num(150 * Scale)
    /\ result.match_score = Num(101 * Scale)

\* C6: select_best_resume raises exactly when the mapping is empty, and then
\* before any model call; with a non-empty mapping every fault is absorbed.
C6_RaisesOnlyWhenEmpty ==
    /\ mpc = "raised" => (resumes = <<>> /\ modelCalls = 0)
    /\ (mpc \in {"raised", "returned"} /\ resumes = <<>>) => mpc = "raised"

\* the decoded answer fails a check of the parser: it is no object, lacks a
\* required field, names no key even with case ignored, or holds a
\* confidence or score that is no number
Malformed(d, m) ==
    \/ d.kind # "dict"
    \/ \E f \in required_fields : f \notin d.has
    \/ \A i \in 1..Len(m) : lower(m[i].filename) # lower(d.selected_resume)
    \/ d.confidence.t = "bad"
    \/ d.match_score.t \in {"bad", "nan", "inf", "ninf"}

\* C7: after a model fault, a text that does not decode or an answer that
\* fails validation, the result is the fallback: the first key of the
\* mapping, confidence 0.5, match_score 50, reasoning marked as fallback;
\* nothing else of the fault or the text shows in it.
C7_FallbackOnFault ==
    (/\ mpc = "returned"
     /\ \/ path \in {"model_fault", "json_error"}
        \/ (result.kind # "none" /\ Malformed(result, resumes)))
        => ret = [selected_resume |-> resumes[1].filename,
                  confidence |-> Num(5000),
                  reasoning |-> "Fallback selection due to LLM error",
                  match_score |-> 50,
                  key_matches |-> "[]"]

\* C7 witness: the model call faulted on a mapping of two entries
C7_Witness ==
    /\ mpc = "returned"
    /\ path = "model_fault"
    /\ Len(resumes) = 2

\* C8: a call of select_best_resume makes at most one model call, and a call
\* that returns a result has made exactly one.
C8_OneModelCall ==
    /\ modelCalls <= 1
    /\ mpc = "returned" => modelCalls = 1

\* C8 witness: the one model call faulted and the call returned
C8_Witness ==
    /\ mpc = "returned"
    /\ path = "model_fault"
    /\ modelCalls = 1

\* C14: for an accepted answer with a numeric confidence c, the confidence
\* returned is c / 100 when c > 1.0 and c otherwise, clamped to [0,1]; so 85
\* becomes 0.85 and a value already in [0,1] comes back unchanged.
C14_ConfidenceNormalized ==
    (mpc = "returned" /\ path = "ok" /\ result.confidence.t = "num") =>
        LET c == result.confidence.v
            scaled == IF c > Scale THEN c \div 100 ELSE c
        IN  /\ ret.confidence.t = "num"
            /\ scaled > Scale => ret.confidence.v = Scale
            /\ scaled < 0 => ret.confidence.v = 0
            /\ scaled \in 0..Scale => ret.confidence.v = scaled
            /\ c = 85 * Scale => ret.confidence.v = 8500
            /\ c \in 0..Scale => ret.confidence.v = c

\* C14 witness: an accepted answer with confidence 85
C14_Witness ==
    /\ mpc = "returned"
    /\ path = "ok"
    /\ result.confidence = Num(85 * Scale)

\* C15: extract_job_info never raises; after a fault of the model call or of
\* the decoding it returns the default record, and otherwise it returns a
\* record with the fields company, location, experience_level, key_skills.
C15_ExtractAlwaysARecord ==
    /\ epc # "raised"
    /\ epc = "returned" =>
        /\ epath \in {"model_fault", "json_error"} => einfo = default_info
        /\ einfo.kind = "dict"
        /\ InfoFields \subseteq einfo.has

\* C20: a decoded object lacking one of selected_resume, confidence,
\* reasoning, match_score gives the fallback result; one that has the four
\* and is sound otherwise is accepted without key_matches, and the resume it
\* names is the one returned.
C20_RequiredFields ==
    (mpc = "returned" /\ result.kind = "dict") =>
        /\ (\E f \in required_fields : f \notin result.has) =>
               (/\ path = "validation_error"
                /\ ret.selected_resume = resumes[1].filename
                /\ ret.reasoning = "Fallback selection due to LLM error"
                /\ ret.confidence = Num(5000)
                /\ ret.match_score = 50)
        /\ (/\ required_fields \subseteq result.has
            /\ "key_matches" \notin result.has
            /\ ~Malformed(result, resumes)) =>
               (/\ path = "ok"
                /\ lower(ret.selected_resume) = lower(result.selected_resume)
                /\ ret.reasoning = "reasoning of the model")

\* C20 witness: an answer with the four required fields and no key_matches
\* was accepted
C20_Witness ==
    /\ mpc = "returned"
    /\ path = "ok"
    /\ result.has = required_fields

\* the decoded answer has the four required fields and names a string that
\* is not a key of the mapping as spelled
NamesNoExactKey ==
    /\ result.kind = "dict"
    /\ required_fields \subseteq result.has
    /\ result.selected_resume # NotAString
    /\ \A i \in 1..Len(resumes) : resumes[i].filename # result.selected_resume

\* C21: a name that is no key as spelled but equals a key with letter case
\* ignored is replaced by the first such key in iteration order, spelled as in
\* the mapping; a name that matches no key gives the fallback result; the
\* name returned is always a key of the mapping.
C21_CaseInsensitiveKey ==
    mpc = "returned" =>
        /\ \E i \in 1..Len(resumes) : resumes[i].filename = ret.selected_resume
        /\ (NamesNoExactKey /\ ~Malformed(result, resumes)) =>
               \E i \in 1..Len(resumes) :
                   /\ ret.selected_resume = resumes[i].filename
                   /\ lower(resumes[i].filename) = lower(result.selected_resume)
                   /\ \A j \in 1..(i - 1) :
                          lower(resumes[j].filename) # lower(result.selected_resume)
                   /\ path = "ok"
                   /\ ret.reasoning = "reasoning of the model"
        /\ (/\ NamesNoExactKey
            /\ \A i \in 1..Len(resumes) :
                   lower(resumes[i].filename) # lower(result.selected_resume)) =>
               (/\ path = "validation_error"
                /\ ret.selected_resume = resumes[1].filename
                /\ ret.reasoning = "Fallback selection due to LLM error")

\* C21 witness: the answer named "ab", the mapping holds "Ab" and "aB" in
\* that order, and the answer was accepted
C21_Witness ==
    /\ mpc = "returned"
    /\ path = "ok"
    /\ result.selected_resume = <<"a", "b">>
    /\ Len(resumes) = 2
    /\ resumes[1].filename = <<"A", "b">>
    /\ resumes[2].filename = <<"a", "B">>

\* C22: no step of select_best_resume (prompt building, model call, parsing,
\* validation, fallback) adds, removes or changes an entry of the resumes
\* mapping, on the success path or on a fault path.
C22_MappingUntouched == [][resumes' = resumes]_vars

\* C22 witness: an answer was accepted whose name had to be respelled, with
\* two entries in the mapping
C22_Witness ==
    /\ mpc = "returned"
    /\ path = "ok"
    /\ Len(resumes) = 2
    /\ ret.selected_resume # result.selected_resume

\* the job description holds a red-flag phrase, letter case ignored
HasRedFlag(jd) ==
    \E f \in 1..Len(red_flags) :
        \E i \in 1..Len(jd) :
            /\ i + Len(red_flags[f]) - 1 <= Len(jd)
            /\ \A k \in 1..Len(red_flags[f]) :
                   jd[i + k - 1].letters = red_flags[f][k].letters

\* C9: should_apply approves exactly when confidence and score reach their
\* thresholds and the description holds no red-flag phrase in any letter
\* case; a confidence below its threshold is the reason given even when the
\* score is too low as well.
C9_GateDecision ==
    gpc = "returned" =>
        LET c == IF "confidence" \in match_result.has
                     THEN match_result.confidence ELSE 0
            sc == IF "match_score" \in match_result.has
                     THEN match_result.match_score ELSE 0
        IN  /\ decision.apply <=> (/\ c >= min_confidence
                                   /\ sc >= min_match_score
                                   /\ ~HasRedFlag(job_description))
            /\ c < min_confidence => decision.why = "Low confidence"
            /\ HasRedFlag(job_description) => ~decision.apply

\* C9 witness: confidence and score pass, the description says
\* "COMMISSION ONLY", and the call has returned
C9_Witness ==
    /\ gpc = "returned"
    /\ match_result.confidence = 6000
    /\ match_result.match_score = 60
    /\ "confidence" \in match_result.has
    /\ "match_score" \in match_result.has
    /\ job_description = <<Word("commission", TRUE), Word("only", TRUE)>>

\* a MatchResult of select_best_resume as the dictionary should_apply reads
AsGateInput(r) ==
    [has |-> {"confidence", "match_score"},
     confidence |-> r.confidence.v,
     match_score |-> r.match_score]

\* C23: should_apply with its default thresholds rejects the fallback result
\* of every non-empty mapping, whatever the job description says; a model
\* fault or a malformed answer therefore never passes the gate.
C23_FallbackRejectedByDefault ==
    (/\ gpc = "returned"
     /\ min_confidence = default_min_confidence
     /\ min_match_score = default_min_match_score
     /\ \E m \in Mappings \ {<<>>} :
            match_result = AsGateInput(_fallback_selection(m)))
        => (~decision.apply /\ decision.why = "Low confidence")

\* C23 witness: the fallback result met the default thresholds and a job
\* description without any red flag, and the call has returned
C23_Witness ==
    /\ gpc = "returned"
    /\ min_confidence = default_min_confidence
    /\ min_match_score = default_min_match_score
    /\ match_result = AsGateInput(_fallback_selection(<<[filename |-> <<"c">>,
                                                         hasText |-> TRUE]>>))
    /\ Len(job_description) = 1
    /\ ~HasRedFlag(job_description)

====
